---- MODULE Spec2Model ----
(***************************************************************************)
(* Model of the notes application: the encrypted route (app/routes/$id.tsx) *)
(* and the plain route (unnamed/part_000).                                  *)
(*                                                                          *)
(* A JavaScript string is a sequence of UTF-16 code units (integers), a     *)
(* Uint8Array a sequence of integers in 0..255.  A call that can throw      *)
(* returns a record [ok, v]: ok = FALSE is the exception.                   *)
(***************************************************************************)
EXTENDS Integers, Sequences, FiniteSets, TLC

(* ------------------------------------------------------------------ *)
(* Strings, bytes and the platform conversions the helpers call       *)
(* ------------------------------------------------------------------ *)

ALGORITHM == "AES-GCM"
KEY_LENGTH == 256
IV_LENGTH == 12
\* AES-GCM's authentication tag, 128 bits when tagLength is not given
TagLength == 16

Ok(v) == [ok |-> TRUE, v |-> v]
Throw == [ok |-> FALSE, v |-> <<>>]

RECURSIVE Sum(_)
Sum(s) == IF s = <<>> THEN 0 ELSE Head(s) + Sum(Tail(s))

IsHighSurrogate(u) == u >= 55296 /\ u <= 56319
IsLowSurrogate(u) == u >= 56320 /\ u <= 57343

\* UTF-8 bytes of one scalar value
Utf8Bytes(cp) ==
    IF cp < 128 THEN <<cp>>
    ELSE IF cp < 2048 THEN <<192 + (cp \div 64), 128 + (cp % 64)>>
    ELSE IF cp < 65536
         THEN <<224 + (cp \div 4096), 128 + ((cp \div 64) % 64), 128 + (cp % 64)>>
    ELSE <<240 + (cp \div 262144), 128 + ((cp \div 4096) % 64),
           128 + ((cp \div 64) % 64), 128 + (cp % 64)>>

\* new TextEncoder().encode(str): the string is first converted to scalar
\* values (an unpaired surrogate becomes U+FFFD), then encoded as UTF-8
RECURSIVE TextEncode(_)
TextEncode(str) ==
    IF str = <<>> THEN <<>>
    ELSE LET u == Head(str) IN
         IF IsHighSurrogate(u) /\ Len(str) >= 2 /\ IsLowSurrogate(str[2])
         THEN Utf8Bytes(65536 + (u - 55296) * 1024 + (str[2] - 56320))
                 \o TextEncode(Tail(Tail(str)))
         ELSE IF IsHighSurrogate(u) \/ IsLowSurrogate(u)
         THEN Utf8Bytes(65533) \o TextEncode(Tail(str))
         ELSE Utf8Bytes(u) \o TextEncode(Tail(str))

IsCont(b) == b >= 128 /\ b <= 191

\* code units of one scalar value
CodeUnits(cp) ==
    IF cp < 65536 THEN <<cp>>
    ELSE <<55296 + ((cp - 65536) \div 1024), 56320 + ((cp - 65536) % 1024)>>

\* UTF-8 decoding with replacement: a byte that starts no well-formed
\* sequence decodes to U+FFFD
RECURSIVE Utf8Decode(_)
Utf8Decode(b) ==
    IF b = <<>> THEN <<>>
    ELSE LET b1 == b[1] IN
         IF b1 < 128 THEN <<b1>> \o Utf8Decode(Tail(b))
         ELSE IF b1 >= 194 /\ b1 <= 223 /\ Len(b) >= 2 /\ IsCont(b[2])
         THEN <<(b1 - 192) * 64 + (b[2] - 128)>> \o Utf8Decode(SubSeq(b, 3, Len(b)))
         ELSE IF b1 >= 224 /\ b1 <= 239 /\ Len(b) >= 3 /\ IsCont(b[2]) /\ IsCont(b[3])
                 /\ (b1 - 224) * 4096 + (b[2] - 128) * 64 + (b[3] - 128) >= 2048
                 /\ ~IsHighSurrogate((b1 - 224) * 4096 + (b[2] - 128) * 64 + (b[3] - 128))
                 /\ ~IsLowSurrogate((b1 - 224) * 4096 + (b[2] - 128) * 64 + (b[3] - 128))
         THEN <<(b1 - 224) * 4096 + (b[2] - 128) * 64 + (b[3] - 128)>>
                 \o Utf8Decode(SubSeq(b, 4, Len(b)))
         ELSE IF b1 >= 240 /\ b1 <= 244 /\ Len(b) >= 4 /\ IsCont(b[2]) /\ IsCont(b[3])
                 /\ IsCont(b[4])
                 /\ (b1 - 240) * 262144 + (b[2] - 128) * 4096 + (b[3] - 128) * 64
                        + (b[4] - 128) >= 65536
                 /\ (b1 - 240) * 262144 + (b[2] - 128) * 4096 + (b[3] - 128) * 64
                        + (b[4] - 128) <= 1114111
         THEN CodeUnits((b1 - 240) * 262144 + (b[2] - 128) * 4096 + (b[3] - 128) * 64
                        + (b[4] - 128)) \o Utf8Decode(SubSeq(b, 5, Len(b)))
         ELSE <<65533>> \o Utf8Decode(Tail(b))

\* new TextDecoder().decode(bytes): UTF-8; with the default ignoreBOM = false
\* a leading byte order mark EF BB BF is dropped
TextDecode(b) ==
    IF Len(b) >= 3 /\ SubSeq(b, 1, 3) = <<239, 187, 191>>
    THEN Utf8Decode(SubSeq(b, 4, Len(b)))
    ELSE Utf8Decode(b)

IsAsciiWhitespace(c) == c \in {9, 10, 12, 13, 32}

\* value of a character of the base64 alphabet, -1 for any other character
B64Index(c) ==
    IF c >= 65 /\ c <= 90 THEN c - 65
    ELSE IF c >= 97 /\ c <= 122 THEN c - 71
    ELSE IF c >= 48 /\ c <= 57 THEN c + 4
    ELSE IF c = 43 THEN 62
    ELSE IF c = 47 THEN 63
    ELSE -1

B64Char(i) ==
    IF i < 26 THEN i + 65
    ELSE IF i < 52 THEN i + 71
    ELSE IF i < 62 THEN i - 4
    ELSE IF i = 62 THEN 43
    ELSE 47

\* btoa(String.fromCharCode(...bytes)): base64 with padding
RECURSIVE btoa(_)
btoa(b) ==
    IF b = <<>> THEN <<>>
    ELSE IF Len(b) = 1
    THEN <<B64Char(b[1] \div 4), B64Char((b[1] % 4) * 16), 61, 61>>
    ELSE IF Len(b) = 2
    THEN <<B64Char(b[1] \div 4), B64Char((b[1] % 4) * 16 + (b[2] \div 16)),
           B64Char((b[2] % 16) * 4), 61>>
    ELSE <<B64Char(b[1] \div 4), B64Char((b[1] % 4) * 16 + (b[2] \div 16)),
           B64Char((b[2] % 16) * 4 + (b[3] \div 64)), B64Char(b[3] % 64)>>
             \o btoa(SubSeq(b, 4, Len(b)))

StripWhitespace(str) ==
    LET keep(c) == ~IsAsciiWhitespace(c) IN SelectSeq(str, keep)

\* one or two trailing "=" are removed when the length is a multiple of 4
StripPadding(str) ==
    IF Len(str) % 4 = 0 /\ Len(str) > 0 /\ str[Len(str)] = 61
    THEN IF str[Len(str) - 1] = 61
         THEN SubSeq(str, 1, Len(str) - 2)
         ELSE SubSeq(str, 1, Len(str) - 1)
    ELSE str

\* the bytes of a run of base64 characters; the bits left over are discarded
RECURSIVE B64Bytes(_)
B64Bytes(q) ==
    IF Len(q) < 2 THEN <<>>
    ELSE IF Len(q) = 2
    THEN <<B64Index(q[1]) * 4 + (B64Index(q[2]) \div 16)>>
    ELSE IF Len(q) = 3
    THEN <<B64Index(q[1]) * 4 + (B64Index(q[2]) \div 16),
           (B64Index(q[2]) % 16) * 16 + (B64Index(q[3]) \div 4)>>
    ELSE <<B64Index(q[1]) * 4 + (B64Index(q[2]) \div 16),
           (B64Index(q[2]) % 16) * 16 + (B64Index(q[3]) \div 4),
           (B64Index(q[3]) % 4) * 64 + B64Index(q[4])>>
             \o B64Bytes(SubSeq(q, 5, Len(q)))

\* atob(str): forgiving-base64 decode; throws InvalidCharacterError
atob(str) ==
    LET data == StripPadding(StripWhitespace(str)) IN
    IF Len(data) % 4 = 1 \/ \E i \in 1..Len(data) : B64Index(data[i]) < 0
    THEN Throw
    ELSE Ok(B64Bytes(data))

(* ------------------------------------------------------------------ *)
(* Client-side encryption helpers                                      *)
(* ------------------------------------------------------------------ *)

\* PBKDF2 over the passphrase's UTF-8 bytes with the fixed salt: the key is
\* a function of those bytes alone, and different bytes give different keys
deriveKey(passphrase) ==
    [name |-> ALGORITHM, length |-> KEY_LENGTH, material |-> TextEncode(passphrase)]

Pad(b, n) == [j \in 1..n |-> IF j <= Len(b) THEN b[j] ELSE 0]

\* the j-th keystream byte under key and iv
KeyStream(key, iv, j) == (Sum(key.material) + iv[((j - 1) % Len(iv)) + 1] + j) % 256

\* the authentication tag over iv and ciphertext under key
AuthTag(key, iv, ct) ==
    [j \in 1..TagLength |->
        (Pad(key.material, TagLength)[j] + Sum(iv) + j * (Sum(ct) + Len(ct))) % 256]

\* crypto.subtle.encrypt({name: "AES-GCM", iv}, key, data): the data under the
\* key's keystream, followed by the tag
SubtleEncrypt(iv, key, data) ==
    LET ct == [j \in 1..Len(data) |-> (data[j] + KeyStream(key, iv, j)) % 256]
    IN ct \o AuthTag(key, iv, ct)

\* crypto.subtle.decrypt({name: "AES-GCM", iv}, key, data): throws
\* OperationError when the data is shorter than a tag or the tag does not verify
SubtleDecrypt(iv, key, data) ==
    IF Len(data) < TagLength THEN Throw
    ELSE LET ct == SubSeq(data, 1, Len(data) - TagLength)
             tag == SubSeq(data, Len(data) - TagLength + 1, Len(data))
         IN IF tag # AuthTag(key, iv, ct) THEN Throw
            ELSE Ok([j \in 1..Len(ct) |-> (ct[j] - KeyStream(key, iv, j) + 512) % 256])

\* encryptMessage(message, key), with iv the value crypto.getRandomValues drew
encryptMessage(message, key, iv) ==
    LET encodedMessage == TextEncode(message)
        ciphertext == SubtleEncrypt(iv, key, encodedMessage)
        combined == iv \o ciphertext
    IN btoa(combined)

decryptMessage(encrypted, key) ==
    LET decoded == atob(encrypted) IN
    IF ~decoded.ok THEN Throw
    ELSE LET combined == decoded.v IN
         IF Len(combined) < IV_LENGTH THEN Throw
         ELSE LET iv == SubSeq(combined, 1, IV_LENGTH)
                  ciphertext == SubSeq(combined, IV_LENGTH + 1, Len(combined))
                  plaintext == SubtleDecrypt(iv, key, ciphertext)
              IN IF ~plaintext.ok THEN Throw
                 ELSE Ok(TextDecode(plaintext.v))

\* isBase64 with the comparison off by one
isBase64_Strict(str) ==
    LET decoded == atob(str) IN
    IF decoded.ok THEN Len(decoded.v) > IV_LENGTH ELSE FALSE

isBase64(str) ==
    LET decoded == atob(str) IN
    IF decoded.ok THEN Len(decoded.v) >= IV_LENGTH ELSE FALSE

(* ------------------------------------------------------------------ *)
(* Values, forms and FormData                                          *)
(* ------------------------------------------------------------------ *)

\* a FormData entry value: a string, a File, or null (what get() returns
\* for a name that has no entry)
Str(s) == [t |-> "string", s |-> s]
File == [t |-> "file", s |-> <<>>]
Null == [t |-> "null", s |-> <<>>]

STR_create == <<99, 114, 101, 97, 116, 101>>
STR_delete == <<100, 101, 108, 101, 116, 101>>
STR_update == <<117, 112, 100, 97, 116, 101>>

\* a form value is submitted as scalar values: an unpaired surrogate
\* becomes U+FFFD
ToUSV(str) ==
    [i \in 1..Len(str) |->
        IF IsLowSurrogate(str[i]) /\ i > 1 /\ IsHighSurrogate(str[i - 1]) THEN str[i]
        ELSE IF IsHighSurrogate(str[i]) /\ i < Len(str) /\ IsLowSurrogate(str[i + 1])
        THEN str[i]
        ELSE IF IsHighSurrogate(str[i]) \/ IsLowSurrogate(str[i]) THEN 65533
        ELSE str[i]]

Control(kind, name, value) == [kind |-> kind, name |-> name, value |-> value]

\* new FormData(form, submitter): one entry per named control in tree order;
\* a button contributes only when it is the submitter (submitter = 0: none)
FormData(form, submitter) ==
    {[name |-> form[i].name, value |-> Str(ToUSV(form[i].value))] :
        i \in {j \in 1..Len(form) :
                  /\ form[j].name # ""
                  /\ (form[j].kind = "button" => j = submitter)}}

\* formData.get(name)
Get(formData, name) ==
    IF \E e \in formData : e.name = name
    THEN (CHOOSE e \in formData : e.name = name).value
    ELSE Null

\* !value
Falsy(value) == value = Null \/ value = Str(<<>>)

IsJsWhitespace(c) ==
    c \in {9, 10, 11, 12, 13, 32, 160, 5760, 8232, 8233, 8239, 8287, 12288, 65279}
        \/ (c >= 8192 /\ c <= 8202)

\* String.prototype.trim
RECURSIVE Trim(_)
Trim(str) ==
    IF str = <<>> THEN str
    ELSE IF IsJsWhitespace(Head(str)) THEN Trim(Tail(str))
    ELSE IF IsJsWhitespace(str[Len(str)]) THEN Trim(SubSeq(str, 1, Len(str) - 1))
    ELSE str

(* ------------------------------------------------------------------ *)
(* Server side: the store, loader and action                           *)
(* ------------------------------------------------------------------ *)

ListIds == {"a", "b"}

\* the id the store gives the n-th note it creates: "1", "2", ...
NoteId(n) == <<48 + n>>

\* TodoManager(kv, id).list()
TodoList(store, id) == store[id]

\* TodoManager(kv, id).create(text); fresh is the id the new note gets
TodoCreate(store, id, text, fresh) ==
    [store EXCEPT ![id] = Append(@, [id |-> fresh, text |-> text])]

\* TodoManager(kv, id).delete(noteId)
TodoDelete(store, id, noteId) ==
    LET keep(n) == Str(n.id) # noteId IN
    [store EXCEPT ![id] = SelectSeq(@, keep)]

loader(store, id) == [notes |-> TodoList(store, id)]

Success == [status |-> 200, body |-> "success"]
InvalidText == [status |-> 400, body |-> "Invalid text"]
InvalidIntent == [status |-> 400, body |-> "Invalid intent"]

\* action that answers a create without storing the note
action_NoCreate(store, id, formData, fresh) ==
    LET intent == Get(formData, "intent") IN
    IF intent = Str(STR_create)
    THEN LET text == Get(formData, "text") IN
         IF text.t # "string" \/ Falsy(text)
         THEN [store |-> store, resp |-> InvalidText]
         ELSE [store |-> store, resp |-> Success]
    ELSE IF intent = Str(STR_delete)
    THEN [store |-> TodoDelete(store, id, Get(formData, "id")), resp |-> Success]
    ELSE [store |-> store, resp |-> InvalidIntent]

\* action whose delete removes the first note instead of the note of that id
action_DeleteFirst(store, id, formData, fresh) ==
    LET intent == Get(formData, "intent") IN
    IF intent = Str(STR_create)
    THEN LET text == Get(formData, "text") IN
         IF text.t # "string" \/ Falsy(text)
         THEN [store |-> store, resp |-> InvalidText]
         ELSE [store |-> TodoCreate(store, id, text.s, fresh), resp |-> Success]
    ELSE IF intent = Str(STR_delete)
    THEN [store |-> [store EXCEPT ![id] = IF @ = <<>> THEN @ ELSE Tail(@)],
          resp |-> Success]
    ELSE [store |-> store, resp |-> InvalidIntent]

\* action that builds its TodoManager on a fixed list-id, not on params.id
action_FixedList(store, id, formData, fresh) ==
    LET intent == Get(formData, "intent") IN
    IF intent = Str(STR_create)
    THEN LET text == Get(formData, "text") IN
         IF text.t # "string" \/ Falsy(text)
         THEN [store |-> store, resp |-> InvalidText]
         ELSE [store |-> TodoCreate(store, "a", text.s, fresh), resp |-> Success]
    ELSE IF intent = Str(STR_delete)
    THEN [store |-> TodoDelete(store, "a", Get(formData, "id")), resp |-> Success]
    ELSE [store |-> store, resp |-> InvalidIntent]

\* action without the emptiness test on text
action_AcceptsEmpty(store, id, formData, fresh) ==
    LET intent == Get(formData, "intent") IN
    IF intent = Str(STR_create)
    THEN LET text == Get(formData, "text") IN
         IF text.t # "string"
         THEN [store |-> store, resp |-> InvalidText]
         ELSE [store |-> TodoCreate(store, id, text.s, fresh), resp |-> Success]
    ELSE IF intent = Str(STR_delete)
    THEN [store |-> TodoDelete(store, id, Get(formData, "id")), resp |-> Success]
    ELSE [store |-> store, resp |-> InvalidIntent]

\* action of app/routes/$id.tsx: the store after the request and the response
action(store, id, formData, fresh) ==
    LET intent == Get(formData, "intent") IN
    IF intent = Str(STR_create)
    THEN LET text == Get(formData, "text") IN
         IF text.t # "string" \/ Falsy(text)
         THEN [store |-> store, resp |-> InvalidText]
         ELSE [store |-> TodoCreate(store, id, text.s, fresh), resp |-> Success]
    ELSE IF intent = Str(STR_delete)
    THEN [store |-> TodoDelete(store, id, Get(formData, "id")), resp |-> Success]
    ELSE [store |-> store, resp |-> InvalidIntent]

\* action of the plain route
actionPlain(store, id, formData, fresh) ==
    LET intent == Get(formData, "intent") IN
    IF intent = Str(STR_create)
    THEN LET text == Get(formData, "text") IN
         IF text.t # "string" \/ Falsy(text)
         THEN [store |-> store, resp |-> InvalidText]
         ELSE [store |-> TodoCreate(store, id, text.s, fresh), resp |-> Success]
    ELSE IF intent = Str(STR_delete)
    THEN [store |-> TodoDelete(store, id, Get(formData, "id")), resp |-> Success]
    ELSE [store |-> store, resp |-> InvalidIntent]

(* ------------------------------------------------------------------ *)
(* Client side: the page of the encrypted route                        *)
(* ------------------------------------------------------------------ *)

\* the notes as the component first shows them
InitialNotes(serverNotes) ==
    [i \in 1..Len(serverNotes) |->
        [id |-> serverNotes[i].id, text |-> serverNotes[i].text,
         encrypted |-> isBase64(serverNotes[i].text)]]

\* the create form with a name attribute on the key input
CreateForm_NamedKey(text, encryptKey) ==
    <<Control("textarea", "text", text),
      Control("input", "key", encryptKey),
      Control("button", "intent", STR_create)>>

\* the create form's controls in tree order; the key input has no name
CreateForm(text, encryptKey) ==
    <<Control("textarea", "text", text),
      Control("input", "", encryptKey),
      Control("button", "intent", STR_create)>>

\* the delete form of one displayed note
DeleteForm(noteId) ==
    <<Control("hidden", "id", noteId),
      Control("button", "intent", STR_delete)>>

\* handleCreateSubmit: whether it called preventDefault, and the body it
\* fetches (no fetch when it returned early); iv is the drawn IV
handleCreateSubmit(form, encryptKey, iv) ==
    LET formData == FormData(form, 0)
        text == Get(formData, "text")
    IN IF Falsy(text) \/ Get(formData, "intent") # Str(STR_create)
       THEN [defaultPrevented |-> FALSE, fetch |-> FALSE, body |-> {}]
       ELSE LET key == Trim(encryptKey)
                textToSend == IF key # <<>>
                              THEN encryptMessage(text.s, deriveKey(key), iv)
                              ELSE text.s
            IN [defaultPrevented |-> TRUE, fetch |-> TRUE,
                body |-> {[name |-> "text", value |-> Str(textToSend)],
                          [name |-> "intent", value |-> Str(STR_create)]}]

\* the button label: Key Used: Yes / No
KeyUsedLabel(encryptKey) == IF Len(encryptKey) > 0 THEN "Yes" ELSE "No"

\* what one note becomes in handleDecryptAll
DecryptNote(note, cryptoKey) ==
    IF note.encrypted
    THEN LET plaintext == decryptMessage(note.text, cryptoKey) IN
         IF plaintext.ok
         THEN [id |-> note.id, text |-> plaintext.v, encrypted |-> FALSE]
         ELSE note
    ELSE [note EXCEPT !.encrypted = FALSE]

\* handleDecryptAll without the inner try/catch: one rejected decryption
\* rejects Promise.all, and the list stays as it was
handleDecryptAll_NoInnerCatch(notes, key) ==
    LET cryptoKey == deriveKey(key) IN
    IF \E i \in 1..Len(notes) :
          notes[i].encrypted /\ ~decryptMessage(notes[i].text, cryptoKey).ok
    THEN notes
    ELSE [i \in 1..Len(notes) |-> DecryptNote(notes[i], cryptoKey)]

\* the list handleDecryptAll hands to setDecryptedNotes
handleDecryptAll(notes, key) ==
    LET cryptoKey == deriveKey(key) IN
    [i \in 1..Len(notes) |-> DecryptNote(notes[i], cryptoKey)]

(* ------------------------------------------------------------------ *)
(* Bounds and the inputs drawn                                         *)
(* ------------------------------------------------------------------ *)

\* notes the store creates in all, those stored at the start included
MaxNotes == 2
\* handleDecryptAll invocations awaiting their promises at once
MaxPending == 2

\* the list-id of the open page
PageList == "a"

T_empty == <<>>
\* "hi!"
T_hi == <<104, 105, 33>>
\* sixteen "A": plain text that is also base64 of twelve bytes
T_b64 == [i \in 1..16 |-> 65]
\* "AAAA": base64 of three bytes
T_short == <<65, 65, 65, 65>>
\* U+FEFF "hi"
T_bom == <<65279, 104, 105>>
\* e-acute, an unpaired surrogate
T_uni == <<233, 55296>>

P_empty == <<>>
\* "k"
P_k == <<107>>
\* "j"
P_j == <<106>>
\* " "
P_space == <<32>>

IVs == {[i \in 1..IV_LENGTH |-> 0], [i \in 1..IV_LENGTH |-> (37 * i) % 256]}
IV0 == [i \in 1..IV_LENGTH |-> 0]

\* ciphertexts another page wrote earlier
C_k == encryptMessage(T_hi, deriveKey(P_k), IV0)
C_j == encryptMessage(T_hi, deriveKey(P_j), IV0)

Note(n, text) == [id |-> NoteId(n), text |-> text]

\* what the open page's list holds when the run starts
StoredLists ==
    {<<>>,
     <<Note(1, C_k), Note(2, C_j)>>,
     <<Note(1, T_hi), Note(2, C_k)>>}

TypedTexts == {T_empty, T_hi, T_b64}
EncryptKeys == {P_empty, P_k, P_space}
DecryptKeys == {P_empty, P_k, P_j}

\* the text field of a request that does not come from the open page
PostedTexts == {Null, File, Str(T_empty), Str(T_hi), Str(T_b64), Str(C_k), Str(C_j)}

Field(name, value) == IF value = Null THEN {} ELSE {[name |-> name, value |-> value]}

\* requests any client can post to the action
PostedForms ==
    {Field("intent", Str(STR_create)) \cup Field("text", t) : t \in PostedTexts}
    \cup {Field("intent", Str(STR_delete)) \cup Field("id", i) :
            i \in {Null} \cup {Str(NoteId(n)) : n \in 1..MaxNotes}}
    \cup {Field("intent", i) \cup Field("text", Str(T_hi)) : i \in {Null, Str(STR_update)}}

(* ------------------------------------------------------------------ *)
(* State                                                               *)
(* ------------------------------------------------------------------ *)

VARIABLES
    kv,              \* the key-value store: list-id -> its notes
    created,         \* notes created so far (the next id)
    serverNotes,     \* the page's loader data
    decryptedNotes,  \* useState: the displayed notes
    encryptKey,      \* useState
    decryptKey,      \* useState
    textarea,        \* the create form's textarea
    pending,         \* handleDecryptAll invocations awaiting their promises
    net,             \* the page's request in flight
    ev,              \* the step that led to this state
    fn               \* a call of the encryption helpers on its own

vars == <<kv, created, serverNotes, decryptedNotes, encryptKey, decryptKey,
          textarea, pending, net, ev, fn>>

EmptyStore == [l \in ListIds |-> <<>>]
Idle == [stage |-> "idle", via |-> "", form |-> {}, resp |-> Success]

Event(kind) ==
    [kind |-> kind, route |-> "", list |-> "", form |-> {}, resp |-> Success,
     before |-> EmptyStore, notes |-> <<>>, key |-> <<>>, text |-> <<>>]

NoCall ==
    [stage |-> "none", message |-> <<>>, passphrase |-> <<>>, other |-> <<>>,
     iv |-> <<>>, encrypted |-> <<>>, decrypted |-> Throw]

Init ==
    /\ fn = NoCall
    /\ \E notes \in StoredLists :
        /\ kv = [EmptyStore EXCEPT ![PageList] = notes]
        /\ created = Len(notes)
    /\ serverNotes = loader(kv, PageList).notes
    /\ decryptedNotes = InitialNotes(serverNotes)
    /\ encryptKey = <<>>
    /\ decryptKey = <<>>
    /\ textarea = <<>>
    /\ pending = {}
    /\ net = Idle
    /\ ev = Event("load")

(* ------------------------------------------------------------------ *)
(* Steps of the user                                                   *)
(* ------------------------------------------------------------------ *)

TypeText ==
    \E t \in TypedTexts :
        /\ t # textarea
        /\ textarea' = t
        /\ ev' = Event("type")
        /\ UNCHANGED <<fn, kv, created, serverNotes, decryptedNotes, encryptKey,
                       decryptKey, pending, net>>

TypeEncryptKey ==
    \E k \in EncryptKeys :
        /\ k # encryptKey
        /\ encryptKey' = k
        /\ ev' = Event("type")
        /\ UNCHANGED <<fn, kv, created, serverNotes, decryptedNotes, decryptKey,
                       textarea, pending, net>>

TypeDecryptKey ==
    \E k \in DecryptKeys :
        /\ k # decryptKey
        /\ decryptKey' = k
        /\ ev' = Event("type")
        /\ UNCHANGED <<fn, kv, created, serverNotes, decryptedNotes, encryptKey,
                       textarea, pending, net>>

\* the user submits the create form: handleCreateSubmit runs, then the Form
\* submits the form with its submitter unless the default was prevented.
\* The page has one request in flight at a time
SubmitCreate ==
    /\ net.stage = "idle"
    /\ \E iv \in IVs :
        LET form == CreateForm(textarea, encryptKey)
            h == handleCreateSubmit(form, encryptKey, iv)
            sent == IF h.defaultPrevented THEN h.body ELSE FormData(form, 3)
        IN /\ net' = [stage |-> "sent",
                      via |-> IF h.defaultPrevented THEN "fetch" ELSE "form",
                      form |-> sent, resp |-> Success]
           /\ ev' = [Event("submitCreate") EXCEPT !.form = sent, !.key = encryptKey,
                                                  !.text = textarea]
    /\ UNCHANGED <<fn, kv, created, serverNotes, decryptedNotes, encryptKey,
                   decryptKey, textarea, pending>>

\* the user presses Delete on a displayed note
SubmitDelete ==
    /\ net.stage = "idle"
    /\ \E i \in 1..Len(decryptedNotes) :
        LET sent == FormData(DeleteForm(decryptedNotes[i].id), 2) IN
        /\ net' = [stage |-> "sent", via |-> "form", form |-> sent, resp |-> Success]
        /\ ev' = [Event("submitDelete") EXCEPT !.form = sent]
    /\ UNCHANGED <<fn, kv, created, serverNotes, decryptedNotes, encryptKey,
                   decryptKey, textarea, pending>>

\* the user presses Decrypt All: with an empty trimmed key it alerts and
\* returns; otherwise the invocation awaits with the notes of this render
ClickDecryptAll ==
    LET key == Trim(decryptKey) IN
    /\ IF key = <<>>
       THEN /\ pending' = pending
            /\ ev' = Event("alert")
       ELSE /\ Cardinality(pending) < MaxPending
            /\ pending' = pending \cup {[key |-> key, notes |-> decryptedNotes]}
            /\ ev' = Event("decryptAll")
    /\ UNCHANGED <<fn, kv, created, serverNotes, decryptedNotes, encryptKey,
                   decryptKey, textarea, net>>

\* an invocation's promises resolve: setDecryptedNotes
ResolveDecryptAll ==
    \E p \in pending :
        /\ decryptedNotes' = handleDecryptAll(p.notes, p.key)
        /\ pending' = pending \ {p}
        /\ ev' = [Event("decrypted") EXCEPT !.notes = p.notes, !.key = p.key]
        /\ UNCHANGED <<fn, kv, created, serverNotes, encryptKey, decryptKey,
                       textarea, net>>

\* a document load of the page (the user reloads, or window.location.reload)
LoadPage(kind) ==
    /\ serverNotes' = loader(kv, PageList).notes
    /\ decryptedNotes' = InitialNotes(serverNotes')
    /\ encryptKey' = <<>>
    /\ decryptKey' = <<>>
    /\ textarea' = <<>>
    /\ pending' = {}
    /\ ev' = [Event(kind) EXCEPT !.list = PageList]

\* the user reloads the page, between requests
UserReload ==
    /\ net.stage = "idle"
    /\ LoadPage("load")
    /\ UNCHANGED <<fn, kv, created, net>>

(* ------------------------------------------------------------------ *)
(* Steps of the server and of the page on its answer                   *)
(* ------------------------------------------------------------------ *)

RouteAction(route, store, id, formData, fresh) ==
    IF route = "encrypted" THEN action(store, id, formData, fresh)
    ELSE actionPlain(store, id, formData, fresh)

Creates(formData) ==
    /\ Get(formData, "intent") = Str(STR_create)
    /\ Get(formData, "text").t = "string"
    /\ ~Falsy(Get(formData, "text"))

\* the action handles the page's request
ServePage ==
    /\ net.stage = "sent"
    /\ Creates(net.form) => created < MaxNotes
    /\ LET r == action(kv, PageList, net.form, NoteId(created + 1)) IN
        /\ kv' = r.store
        /\ created' = IF Creates(net.form) THEN created + 1 ELSE created
        /\ net' = [net EXCEPT !.stage = "answered", !.resp = r.resp]
        /\ ev' = [Event("action") EXCEPT !.route = "encrypted", !.list = PageList,
                                         !.form = net.form, !.resp = r.resp,
                                         !.before = kv]
    /\ UNCHANGED <<fn, serverNotes, decryptedNotes, encryptKey, decryptKey, textarea,
                   pending>>

\* the action of either route handles a request of another client
ServeOther ==
    \E route \in {"encrypted", "plain"}, id \in ListIds, formData \in PostedForms :
        /\ Creates(formData) => created < MaxNotes
        /\ LET r == RouteAction(route, kv, id, formData, NoteId(created + 1)) IN
            /\ kv' = r.store
            /\ created' = IF Creates(formData) THEN created + 1 ELSE created
            /\ ev' = [Event("action") EXCEPT !.route = route, !.list = id,
                                             !.form = formData, !.resp = r.resp,
                                             !.before = kv]
        /\ UNCHANGED <<fn, serverNotes, decryptedNotes, encryptKey, decryptKey,
                       textarea, pending, net>>

\* the page receives the answer. To a Form submission: the loaders are
\* revalidated and the component stays mounted. To handleCreateSubmit's
\* fetch: window.location.reload() when response.ok
Answered ==
    /\ net.stage = "answered"
    /\ net' = Idle
    /\ IF net.via = "form"
       THEN /\ serverNotes' = loader(kv, PageList).notes
            /\ ev' = [Event("revalidated") EXCEPT !.list = PageList,
                                                  !.form = net.form,
                                                  !.resp = net.resp]
            /\ UNCHANGED <<decryptedNotes, encryptKey, decryptKey, textarea,
                           pending>>
       ELSE IF net.resp.status = 200
       THEN LoadPage("reloaded")
       ELSE /\ ev' = Event("fetchFailed")
            /\ UNCHANGED <<serverNotes, decryptedNotes, encryptKey, decryptKey,
                           textarea, pending>>
    /\ UNCHANGED <<fn, kv, created>>

Next ==
    \/ TypeText
    \/ TypeEncryptKey
    \/ TypeDecryptKey
    \/ SubmitCreate
    \/ SubmitDelete
    \/ ClickDecryptAll
    \/ ResolveDecryptAll
    \/ UserReload
    \/ ServePage
    \/ Answered

Spec == Init /\ [][Next]_vars

\* the server alone, answering the requests of any client
InitServer ==
    /\ fn = NoCall
    /\ kv = EmptyStore
    /\ created = 0
    /\ serverNotes = <<>>
    /\ decryptedNotes = <<>>
    /\ encryptKey = <<>>
    /\ decryptKey = <<>>
    /\ textarea = <<>>
    /\ pending = {}
    /\ net = Idle
    /\ ev = Event("init")

NextServer == ServeOther

ServerSpec == InitServer /\ [][NextServer]_vars
\* the encryption helpers alone: encryptMessage on a message under the key
\* of a passphrase, then decryptMessage under the key of a passphrase
Messages == {T_empty, T_hi, T_b64, T_short, T_bom, T_uni}
Passphrases == {P_k, P_j, P_space}

InitCrypto ==
    /\ kv = EmptyStore
    /\ created = 0
    /\ serverNotes = <<>>
    /\ decryptedNotes = <<>>
    /\ encryptKey = <<>>
    /\ decryptKey = <<>>
    /\ textarea = <<>>
    /\ pending = {}
    /\ net = Idle
    /\ ev = Event("init")
    /\ \E m \in Messages, p \in Passphrases, q \in Passphrases, iv \in IVs :
        fn = [NoCall EXCEPT !.stage = "input", !.message = m, !.passphrase = p,
                            !.other = q, !.iv = iv]

CallEncrypt ==
    /\ fn.stage = "input"
    /\ fn' = [fn EXCEPT !.stage = "encrypted",
                        !.encrypted = encryptMessage(fn.message,
                                                     deriveKey(fn.passphrase), fn.iv)]
    /\ UNCHANGED <<kv, created, serverNotes, decryptedNotes, encryptKey,
                   decryptKey, textarea, pending, net, ev>>

CallDecrypt ==
    /\ fn.stage = "encrypted"
    /\ fn' = [fn EXCEPT !.stage = "decrypted",
                        !.decrypted = decryptMessage(fn.encrypted, deriveKey(fn.other))]
    /\ UNCHANGED <<kv, created, serverNotes, decryptedNotes, encryptKey,
                   decryptKey, textarea, pending, net, ev>>

NextCrypto == CallEncrypt \/ CallDecrypt

CryptoSpec == InitCrypto /\ [][NextCrypto]_vars
(* ------------------------------------------------------------------ *)
(* Properties                                                          *)
(* ------------------------------------------------------------------ *)

FieldNames(formData) == {e.name : e \in formData}
NoteIds(notes) == {notes[i].id : i \in 1..Len(notes)}
NoteSet(notes) == {[id |-> notes[i].id, text |-> notes[i].text] : i \in 1..Len(notes)}

\* the passphrases the key inputs hold, as typed and as trimmed
KeyStrings ==
    {encryptKey, Trim(encryptKey), decryptKey, Trim(decryptKey)} \ {<<>>}

\* C1: a request of the page in flight (the create submission, by fetch or
\* by the Form, and the delete submission) has no field but text, intent and
\* id, whatever the key inputs hold; and when it is sent, no field has a
\* passphrase as its value, unless the user typed that very string as the note
C1_OnlyTextIntentId ==
    /\ net.stage # "idle" => FieldNames(net.form) \subseteq {"text", "intent", "id"}
    /\ ev.kind \in {"submitCreate", "submitDelete"}
          => \A e \in ev.form :
                e.value.s \in KeyStrings => e.value.s = ToUSV(ev.text)

C1_Witness ==
    /\ net.stage = "sent"
    /\ encryptKey = P_k
    /\ decryptKey = P_j
    /\ Get(net.form, "intent") = Str(STR_create)
    /\ Get(net.form, "text") = Str(T_hi)

\* C2: a create form submitted with a non-empty text and a non-empty encrypt
\* key sends, as its text field, an output of encryptMessage on that text
\* under the key of the passphrase, and not the text itself. The key counts
\* as non-empty the way the handler counts it, after trim
C2_EncryptedBeforeSubmission ==
    (ev.kind = "submitCreate" /\ ev.text # <<>> /\ Trim(ev.key) # <<>>)
        => /\ Get(ev.form, "text") \in
                {Str(encryptMessage(ToUSV(ev.text), deriveKey(k), iv)) :
                    k \in {ev.key, Trim(ev.key)}, iv \in IVs}
           /\ Get(ev.form, "text") # Str(ToUSV(ev.text))

\* C3: decrypting an encrypted message under the key of the same passphrase
\* returns the message, the encrypted string is base64 of the 12-byte IV
\* followed by the ciphertext, and decrypting under the key of another
\* passphrase fails
C3_RoundTrip ==
    fn.stage = "decrypted"
        => /\ atob(fn.encrypted).ok
           /\ Len(atob(fn.encrypted).v) = IV_LENGTH + Len(TextEncode(fn.message)) + TagLength
           /\ SubSeq(atob(fn.encrypted).v, 1, IV_LENGTH) = fn.iv
           /\ fn.other = fn.passphrase => fn.decrypted = Ok(fn.message)
           /\ fn.other # fn.passphrase => ~fn.decrypted.ok

\* every string encryptMessage returns on the messages, passphrases and IVs drawn
CipherTexts ==
    {encryptMessage(m, deriveKey(p), iv) : m \in Messages, p \in Passphrases, iv \in IVs}

IsB64Letter(c) ==
    \/ (c >= 65 /\ c <= 90)
    \/ (c >= 97 /\ c <= 122)
    \/ (c >= 48 /\ c <= 57)
    \/ c = 43
    \/ c = 47

\* str, ASCII whitespace and padding aside, is base64 of at least n bytes
Base64OfAtLeast(str, n) ==
    LET isData(c) == c \notin {9, 10, 12, 13, 32}
        body == SelectSeq(str, isData)
        len == Len(body)
        pad == IF len > 0 /\ len % 4 = 0 /\ body[len] = 61
               THEN (IF body[len - 1] = 61 THEN 2 ELSE 1)
               ELSE 0
        m == len - pad
    IN /\ \A i \in 1..m : IsB64Letter(body[i])
       /\ m % 4 # 1
       /\ (m * 3) \div 4 >= n

Loaded == ev.kind \in {"load", "reloaded"}

\* C4 as stated: on load a note is flagged encrypted exactly when its text
\* is an output of encryptMessage
C4_FlagIffCiphertext ==
    Loaded => \A i \in 1..Len(decryptedNotes) :
                decryptedNotes[i].encrypted <=> decryptedNotes[i].text \in CipherTexts

\* C4 amended: on load the displayed notes are the stored notes, a note is
\* flagged encrypted exactly when its text is base64 of at least IV_LENGTH bytes,
\* and every output of encryptMessage is flagged
C4_FlagIffBase64 ==
    Loaded =>
        /\ Len(decryptedNotes) = Len(kv[PageList])
        /\ \A i \in 1..Len(decryptedNotes) :
            /\ decryptedNotes[i].id = kv[PageList][i].id
            /\ decryptedNotes[i].text = kv[PageList][i].text
            /\ decryptedNotes[i].encrypted
                  <=> Base64OfAtLeast(decryptedNotes[i].text, IV_LENGTH)
            /\ decryptedNotes[i].text \in CipherTexts => decryptedNotes[i].encrypted

C4_Witness ==
    /\ Loaded
    /\ \E i, j \in 1..Len(decryptedNotes) :
        /\ decryptedNotes[i].text = T_hi /\ ~decryptedNotes[i].encrypted
        /\ decryptedNotes[j].text = C_k /\ decryptedNotes[j].encrypted

Handled == ev.kind = "action"
NotesBefore == loader(ev.before, ev.list).notes
NotesAfter == loader(kv, ev.list).notes

\* C5: after the action has handled a create whose text is a non-empty
\* string t, it has answered success and the loader of that list-id returns
\* a note it did not return before, whose text is exactly t
C5_CreateStoresText ==
    (/\ Handled
     /\ Get(ev.form, "intent") = Str(STR_create)
     /\ Get(ev.form, "text").t = "string"
     /\ Get(ev.form, "text").s # <<>>)
        => /\ ev.resp = Success
           /\ \E n \in NoteSet(NotesAfter) \ NoteSet(NotesBefore) :
                n.text = Get(ev.form, "text").s
           /\ NoteSet(NotesBefore) \subseteq NoteSet(NotesAfter)

C5_Witness ==
    /\ Handled
    /\ ev.resp = Success
    /\ Get(ev.form, "text") = Str(C_k)
    /\ NotesBefore # <<>>
    /\ NotesAfter[Len(NotesAfter)].text = C_k

\* C6: after the action has handled a delete with id i, the loader of that
\* list-id returns no note of id i, and returns every other note it returned
\* before, with the same id and text, and no note besides
C6_DeleteById ==
    (Handled /\ Get(ev.form, "intent") = Str(STR_delete))
        => /\ \A n \in NoteSet(NotesAfter) : Str(n.id) # Get(ev.form, "id")
           /\ NoteSet(NotesAfter)
                = {n \in NoteSet(NotesBefore) : Str(n.id) # Get(ev.form, "id")}
           /\ Len(NotesAfter) = Cardinality(NoteSet(NotesAfter))

C6_Witness ==
    /\ Handled
    /\ Get(ev.form, "id") = Str(NoteId(1))
    /\ NoteIds(NotesBefore) = {NoteId(1), NoteId(2)}
    /\ NoteIds(NotesAfter) = {NoteId(2)}

\* C7: an action addressed to one list-id leaves what the loader returns for
\* every other list-id as it was
C7_OtherListsUnchanged ==
    Handled => \A other \in ListIds \ {ev.list} :
                  loader(kv, other) = loader(ev.before, other)

C7_Witness ==
    /\ Handled
    /\ ev.list = "a"
    /\ NotesAfter # NotesBefore
    /\ loader(kv, "b").notes # <<>>

\* the requests C8 lists
Refused(formData) ==
    \/ Get(formData, "intent") \notin {Str(STR_create), Str(STR_delete)}
    \/ /\ Get(formData, "intent") = Str(STR_create)
       /\ \/ Get(formData, "text") = Null
          \/ Get(formData, "text").t # "string"
          \/ Get(formData, "text").s = <<>>

\* C8: the action answers 400 exactly on the requests listed, and then
\* leaves the store as it was; on every other request it answers success,
\* having created a note or having removed the note of the id given
C8_StatusAndEffect ==
    Handled =>
        /\ ev.resp.status = 400 <=> Refused(ev.form)
        /\ Refused(ev.form) => kv = ev.before
        /\ ~Refused(ev.form) =>
            /\ ev.resp = Success
            /\ Get(ev.form, "intent") = Str(STR_create)
                  => Len(NotesAfter) = Len(NotesBefore) + 1
            /\ Get(ev.form, "intent") = Str(STR_delete)
                  => Get(ev.form, "id") \notin {Str(i) : i \in NoteIds(NotesAfter)}

C8_Witness ==
    /\ Handled
    /\ ev.resp.status = 400
    /\ Get(ev.form, "intent") = Str(STR_create)
    /\ Get(ev.form, "text") = File
    /\ ev.before[ev.list] # <<>>
    /\ kv = ev.before

\* C9: once a create or delete has been answered and the loader data is
\* refreshed, the displayed notes have the ids of the stored notes
C9_DisplayedIdsAreStoredIds ==
    ev.kind \in {"revalidated", "reloaded"}
        => NoteIds(decryptedNotes) = NoteIds(kv[PageList])

\* C10: when a Decrypt All invocation resolves, the displayed list has the
\* ids, in order, of the list the invocation took; a note it took as
\* encrypted reads as its plaintext, not encrypted, when decryptMessage under
\* the key succeeds, and is as it was when it fails; a note it took as not
\* encrypted keeps its text and is not encrypted
C10_EachNoteOnItsOwn ==
    ev.kind = "decrypted" =>
        /\ Len(decryptedNotes) = Len(ev.notes)
        /\ \A i \in 1..Len(ev.notes) :
            LET old == ev.notes[i]
                new == decryptedNotes[i]
                plaintext == decryptMessage(old.text, deriveKey(ev.key))
            IN /\ new.id = old.id
               /\ (old.encrypted /\ plaintext.ok)
                     => (new.text = plaintext.v /\ ~new.encrypted)
               /\ (old.encrypted /\ ~plaintext.ok)
                     => (new.text = old.text /\ new.encrypted)
               /\ ~old.encrypted => (new.text = old.text /\ ~new.encrypted)

\* one note decrypted beside one whose decryption failed
C10_Witness ==
    /\ ev.kind = "decrypted"
    /\ ev.key = P_k
    /\ ev.notes = <<[id |-> NoteId(1), text |-> C_k, encrypted |-> TRUE],
                    [id |-> NoteId(2), text |-> C_j, encrypted |-> TRUE]>>
    /\ decryptedNotes = <<[id |-> NoteId(1), text |-> T_hi, encrypted |-> FALSE],
                          [id |-> NoteId(2), text |-> C_j, encrypted |-> TRUE]>>

\* a displayed note that reads as decrypted: not encrypted, with a text that
\* is not ciphertext to the page
ShownDecrypted(note) == ~note.encrypted /\ ~isBase64(note.text)

\* C11: in a step in which a Decrypt All invocation resolves, a note that
\* was displayed as decrypted is still displayed at its place with the same
\* id and text and not encrypted, whichever invocation resolves and whatever
\* its key
C11_DecryptionMonotonic ==
    [][ev'.kind = "decrypted"
          => \A i \in 1..Len(decryptedNotes) :
                ShownDecrypted(decryptedNotes[i])
                    => /\ i <= Len(decryptedNotes')
                       /\ decryptedNotes'[i] = decryptedNotes[i]]_vars

\* the text field of a create submission is an output of encryptMessage on
\* the text typed, under the key of the passphrase typed
SentEncrypted ==
    /\ Get(ev.form, "text") \in
          {Str(encryptMessage(ToUSV(ev.text), deriveKey(k), iv)) :
              k \in {ev.key, Trim(ev.key)}, iv \in IVs}
    /\ Get(ev.form, "text") # Str(ToUSV(ev.text))

\* C12: when a non-empty note is submitted, the text sent is encrypted if
\* the button reads Key Used: Yes at that moment, and is the text typed if
\* it reads Key Used: No; an encrypt key of whitespace only reads No
C12_LabelAgreesWithSent ==
    (ev.kind = "submitCreate" /\ ev.text # <<>>)
        => /\ KeyUsedLabel(ev.key) = "Yes" => SentEncrypted
           /\ KeyUsedLabel(ev.key) = "No"
                 => Get(ev.form, "text") = Str(ToUSV(ev.text))
           /\ Trim(ev.key) = <<>> => KeyUsedLabel(ev.key) = "No"
====
